---- MODULE Spec2Model ----
(***************************************************************************)
(* Model of the streaming conversation orchestrator of shop-chat-agent:    *)
(*   app/routes/chat.jsx            handleChatRequest, handleChatSession    *)
(*   app/services/claude.server.js  streamConversation (event listeners)    *)
(*   unnamed/part_000               streamConversation (with fallback)      *)
(* One chat request is followed from the HTTP boundary to the close of its *)
(* output channel.  Handlers that the code starts without awaiting them    *)
(* are tasks that resume independently of the main flow.                   *)
(***************************************************************************)
EXTENDS Integers, Sequences, FiniteSets, TLC

\* ------------------------------------------------------------------ bounds
\* The size of a session: its model requests (streamConversation invocations
\* and non-streaming requests), the content blocks of the model's responses,
\* and the failures of collaborators (tool gateway, persistence, model
\* provider, output channel) taken together.
MaxSize == 4
MaxClock == 2      \* readings the millisecond clock advances through
MaxRequests == 3   \* chat requests the process handles side by side

\* ------------------------------------------------------------ value shapes
\* JS values that end up as message content, in one record shape.
Str(s) == [kind |-> "str", s |-> s, n |-> 0, blocks |-> <<>>]
Num(n) == [kind |-> "num", s |-> "", n |-> n, blocks |-> <<>>]
Blocks(b) == [kind |-> "blocks", s |-> "", n |-> 0, blocks |-> b]
Undefined == [kind |-> "undefined", s |-> "", n |-> 0, blocks |-> <<>>]

\* A TEXT column value: either the characters handed over as they are, or
\* the output of JSON.stringify for a value.
RawText(s) == [enc |-> "raw", v |-> Str(s)]
JSONstringify(v) == [enc |-> "json", v |-> v]

\* Raw texts of the request domain that are themselves valid JSON.
JsonLiterals == {"42"}
JsonLiteralValue(s) == IF s = "42" THEN Num(42) ELSE Str(s)

\* chat.jsx line 119: try { JSON.parse(content) } catch { content }
ParseContent(t) ==
  IF t.enc = "json" THEN t.v
  ELSE IF t.v.s \in JsonLiterals THEN JsonLiteralValue(t.v.s)
  ELSE t.v

\* chat.jsx lines 117-121: dbMessages.map(...)
RECURSIVE MapHistory(_)
MapHistory(rows) ==
  IF rows = <<>> THEN <<>>
  ELSE <<[role |-> Head(rows).role, content |-> ParseContent(Head(rows).content)]>>
       \o MapHistory(Tail(rows))

\* ------------------------------------------------------- request domain
NoMessage == ""
NoId == ""
\* Request bodies: no message; a first message without conversation_id; a
\* message that is itself JSON text, sent to an existing conversation.
Bodies == {[message |-> NoMessage, conversation_id |-> NoId],
           [message |-> "hi", conversation_id |-> NoId],
           [message |-> "42", conversation_id |-> "c1"]}

\* ------------------------------------------------------- model responses
TextDeltas == <<"a", "b">>  \* the deltas in which a text block is streamed
BlockTypes == {"text", "tool_use"}
StopReasons == {"end_turn", "tool_use", "max_tokens"}

ToolUseId(turn, i) == turn * 10 + i

MkBlock(type, turn, i) ==
  IF type = "text"
    THEN [type |-> "text", text |-> TextDeltas, id |-> 0]
    ELSE [type |-> "tool_use", text |-> <<>>, id |-> ToolUseId(turn, i)]

\* The sequences of at most n block types.
TypeSeqs(n) == UNION {[1..k -> BlockTypes] : k \in 0..n}

MkContent(types, turn) == [i \in 1..Len(types) |-> MkBlock(types[i], turn, i)]

ToolUseCount(content) == Cardinality({i \in 1..Len(content) : content[i].type = "tool_use"})

HasToolUse(content) == \E i \in 1..Len(content) : content[i].type = "tool_use"

\* The provider's final messages: stop_reason "tool_use" comes with at least
\* one tool_use block, "end_turn" and "max_tokens" with none, and a tool is
\* only requested from a catalog that offers one.
Responses(turn, n) ==
  {[role |-> "assistant", content |-> MkContent(ts, turn), stop_reason |-> sr] :
     ts \in TypeSeqs(n), sr \in StopReasons}

ValidResponse(m, offered) ==
  /\ (HasToolUse(m.content) => offered # {})
  /\ (m.stop_reason = "tool_use" => HasToolUse(m.content))
  /\ (m.stop_reason # "tool_use" => ~HasToolUse(m.content))

NoMessageYet == [role |-> "user", content |-> <<>>, stop_reason |-> "undefined"]

\* ------------------------------------------------------------ wire events
Ev(type, turn, id, payload) == [type |-> type, turn |-> turn, id |-> id, payload |-> payload]

VARIABLES
  gateway,        \* which streamConversation is deployed: "emitter" | "fallback"
  body,           \* parsed request body [message, conversation_id]
  pc,             \* position of handleChatRequest / handleChatSession
  response,       \* HTTP response [status, kind]
  conversationId,
  tools,          \* mcpClient.tools
  db,             \* Message rows of this conversation, in createdAt order
  conversationHistory,
  productsToDisplay,
  finalMessage,   \* the loop variable of handleChatSession
  sc,             \* frame of the streamConversation call in progress
  tasks,          \* handler invocations in progress (promises not yet settled)
  wire,           \* events enqueued on the output channel while it is open
  late,           \* events passed to sendMessage after the channel was closed
  callLog,        \* one entry per streamConversation call: what it was given
  toolLog,        \* one entry per mcpClient.callTool call
  msgLog,         \* one entry per onMessage invocation
  attempts,       \* per turn: streaming and fallback requests issued
  discovery,      \* connect calls made and whether one threw
  saves,          \* saveMessage calls started
  returned,       \* the final messages streamConversation has returned
  faults,         \* collaborator failures so far
  clock,          \* the reading of the process's millisecond clock
  resolved        \* the requests handled side by side: body and identifier

vars == <<gateway, body, pc, response, conversationId, tools, db,
          conversationHistory, productsToDisplay, finalMessage, sc, tasks,
          wire, late, callLog, toolLog, msgLog, attempts, discovery, saves, returned, faults,
          clock, resolved>>

\* Date.now().toString()
Now == ToString(clock)

\* Line 73: body.conversation_id || Date.now().toString()
ResolveConversationId(b, now) ==
  IF b.conversation_id # NoId THEN b.conversation_id ELSE now

NoFrame == [phase |-> "none", msg |-> NoMessageYet, pos |-> 0, waiting |-> FALSE]

PriorRows == <<[role |-> "user", content |-> RawText("old")],
               [role |-> "assistant", content |-> JSONstringify(Blocks(<<MkBlock("text", 0, 1)>>))]>>

\* The rows a conversation has before the request: none for a fresh
\* identifier, an earlier exchange for a conversation the client names.
InitialRows(b) == IF b.conversation_id = NoId THEN <<>> ELSE PriorRows

Init ==
  /\ gateway \in {"emitter", "fallback"}
  /\ body \in Bodies
  /\ pc = "request"
  /\ response = [status |-> 0, kind |-> "none"]
  /\ conversationId = NoId
  /\ tools = {}
  /\ db = InitialRows(body)
  /\ conversationHistory = <<>>
  /\ productsToDisplay = <<>>
  /\ finalMessage = NoMessageYet
  /\ sc = NoFrame
  /\ tasks = {}
  /\ wire = <<>>
  /\ late = {}
  /\ callLog = <<>>
  /\ toolLog = <<>>
  /\ msgLog = <<>>
  /\ attempts = <<>>
  /\ discovery = [storefront |-> 0, customer |-> 0, failed |-> FALSE]
  /\ saves = 0
  /\ returned = <<>>
  /\ faults = 0
  /\ clock = 0
  /\ resolved = <<>>

\* ------------------------------------------------------- output channel
\* The channel is open from createSseStream until the producer settles.
ChannelOpen == pc \notin {"request", "rejected", "done", "failed"}

\* stream.sendMessage for a sequence of events issued in one synchronous run.
SendAll(evs) ==
  IF ChannelOpen
    THEN /\ wire' = wire \o evs
         /\ UNCHANGED late
    ELSE /\ late' = late \cup {evs[i] : i \in 1..Len(evs)}
         /\ UNCHANGED wire

\* ---------------------------------------------------- persistence gateway
\* saveMessage(conversationId, role, content): one more row, content as given.
saveMessage(rows, role, content) == Append(rows, [role |-> role, content |-> content])

\* getConversationHistory(conversationId): the rows, oldest first.
getConversationHistory(rows) == rows

\* ------------------------------------------------------------ tool gateway
StorefrontTools == {"search_shop_catalog"}
CustomerTools == {"get_order_status"}

\* connectToStorefrontServer / connectToCustomerServer: a connection that
\* succeeds adds the tools it lists to mcpClient.tools.
connectToStorefrontServer(catalog) == catalog \cup StorefrontTools
connectToCustomerServer(catalog) == catalog \cup CustomerTools

\* Content blocks of the final messages returned so far and of the response
\* of the call in progress.
RECURSIVE CountBlocks(_)
CountBlocks(msgs) ==
  IF msgs = <<>> THEN 0 ELSE Len(Head(msgs).content) + CountBlocks(Tail(msgs))

\* The non-streaming requests issued so far.
RECURSIVE FallbackCalls(_)
FallbackCalls(as) ==
  IF as = <<>> THEN 0 ELSE Head(as).fallback + FallbackCalls(Tail(as))

SessionSize ==
  Len(callLog) + FallbackCalls(attempts) + faults
    + CountBlocks(returned) + Len(sc.msg.content)

\* There is room for a failure that is followed by a non-streaming request.
RoomForFallback == SessionSize + 1 < MaxSize

\* A collaborator call settles: ok, or with one more failure.
Settles(ok) ==
  /\ ok \/ SessionSize < MaxSize
  /\ faults' = (IF ok THEN faults ELSE faults + 1)

\* ------------------------------------------------- handleChatRequest
\* The check of line 66 left out.
MissingUnchecked(message) == FALSE

\* Line 66: if (!userMessage)
Missing(message) == message = NoMessage

\* A catch that logs the error and goes round the turn loop again.
PropagatesRetrying == "loop"

\* Lines 177-180: the catch of handleChatSession logs and rethrows, so an
\* error that reaches it ends the producer.
Propagates == "failed"

RejectMissingMessage ==
  /\ pc = "request"
  /\ Missing(body.message)
  /\ pc' = "rejected"
  /\ response' = [status |-> 400, kind |-> "json-error"]
  /\ UNCHANGED <<clock, resolved, gateway, body, conversationId, tools, db, conversationHistory,
                 productsToDisplay, finalMessage, sc, tasks, wire, late, callLog,
                 toolLog, msgLog, attempts, discovery, saves, returned, faults>>

OpenStream ==
  /\ pc = "request"
  /\ ~Missing(body.message)
  /\ conversationId' = ResolveConversationId(body, Now)
  /\ response' = [status |-> 200, kind |-> "event-stream"]
  /\ pc' = "opened"
  /\ UNCHANGED <<clock, resolved, gateway, body, tools, db, conversationHistory,
                 productsToDisplay, finalMessage, sc, tasks, wire, late, callLog,
                 toolLog, msgLog, attempts, discovery, saves, returned, faults>>

HandleChatRequest == RejectMissingMessage \/ OpenStream

\* ------------------------------------------------- handleChatSession
\* Lines 90-101: services and MCP client are built, the `id` event is sent.
SessionStart ==
  /\ pc = "opened"
  /\ SendAll(<<Ev("id", 0, 0, <<conversationId>>)>>)
  /\ pc' = "connectStorefront"
  /\ UNCHANGED <<clock, resolved, gateway, body, response, conversationId, tools, db,
                 conversationHistory, productsToDisplay, finalMessage, sc, tasks,
                 callLog, toolLog, msgLog, attempts, discovery, saves, returned, faults>>

\* A catch that goes back to the start of tool discovery.
DiscoveryRetried == "connectStorefront"

\* Lines 107-109: the catch logs a warning and the session goes on with
\* line 111.
DiscoveryFailed == "saveUser"

\* Line 105; a throw leaves the inner try, skipping line 106.
ConnectStorefront ==
  /\ pc = "connectStorefront"
  /\ \E ok \in BOOLEAN :
       /\ Settles(ok)
       /\ tools' = (IF ok THEN connectToStorefrontServer(tools) ELSE tools)
       /\ discovery' = [discovery EXCEPT !.storefront = @ + 1,
                                         !.failed = @ \/ ~ok]
       /\ pc' = (IF ok THEN "connectCustomer" ELSE DiscoveryFailed)
  /\ UNCHANGED <<clock, resolved, gateway, body, response, conversationId, db,
                 conversationHistory, productsToDisplay, finalMessage, sc, tasks,
                 wire, late, callLog, toolLog, msgLog, attempts, saves, returned>>

\* Line 106.
ConnectCustomer ==
  /\ pc = "connectCustomer"
  /\ \E ok \in BOOLEAN :
       /\ Settles(ok)
       /\ tools' = (IF ok THEN connectToCustomerServer(tools) ELSE tools)
       /\ discovery' = [discovery EXCEPT !.customer = @ + 1,
                                         !.failed = @ \/ ~ok]
       /\ pc' = (IF ok THEN "saveUser" ELSE DiscoveryFailed)
  /\ UNCHANGED <<clock, resolved, gateway, body, response, conversationId, db,
                 conversationHistory, productsToDisplay, finalMessage, sc, tasks,
                 wire, late, callLog, toolLog, msgLog, attempts, saves, returned>>

\* Line 114: await saveMessage(conversationId, 'user', userMessage); a
\* rejection reaches the catch of line 177, which rethrows.
SaveUserMessage ==
  /\ pc = "saveUser"
  /\ saves' = saves + 1
  /\ \E ok \in BOOLEAN :
       /\ Settles(ok)
       /\ IF ok
         THEN /\ db' = saveMessage(db, "user", RawText(body.message))
              /\ pc' = "loadHistory"
         ELSE /\ db' = db
              /\ pc' = Propagates
  /\ UNCHANGED <<clock, resolved, gateway, body, response, conversationId, tools,
                 conversationHistory, productsToDisplay, finalMessage, sc, tasks,
                 wire, late, callLog, toolLog, msgLog, attempts, discovery, returned>>

\* Lines 116-123.
LoadHistory ==
  /\ pc = "loadHistory"
  /\ \E ok \in BOOLEAN :
       /\ Settles(ok)
       /\ IF ok
         THEN /\ conversationHistory' = MapHistory(getConversationHistory(db))
              /\ pc' = "loop"
         ELSE /\ conversationHistory' = conversationHistory
              /\ pc' = Propagates
  /\ UNCHANGED <<clock, resolved, gateway, body, response, conversationId, tools, db,
                 productsToDisplay, finalMessage, sc, tasks,
                 wire, late, callLog, toolLog, msgLog, attempts, discovery, saves, returned>>

\* ------------------------------------------------- handler invocations
Turn == Len(callLog)

MsgTask(turn, role, content) ==
  [kind |-> "msg", turn |-> turn, id |-> 0, awaited |-> FALSE,
   role |-> role, content |-> content, tix |-> 0]

ToolTask(turn, id, awaited, tix) ==
  [kind |-> "tool", turn |-> turn, id |-> id, awaited |-> awaited,
   role |-> "", content |-> Undefined, tix |-> tix]

\* What a `message` listener receives, and what a `message_stop` listener
\* receives: the raw stream event, which has a type and nothing else.
AsMessage(m) == [role |-> m.role, content |-> Blocks(m.content)]
MessageStopEvent == [role |-> "undefined", content |-> Undefined]

\* chat.jsx lines 131-133, up to the suspension in saveMessage: the entry is
\* pushed and the write is started.  `arg` is what the gateway passed in.
OnMessageBegins(arg, path) ==
  /\ conversationHistory' =
       Append(conversationHistory, [role |-> arg.role, content |-> arg.content])
  /\ msgLog' = Append(msgLog, [turn |-> Turn, role |-> arg.role,
                               content |-> arg.content, path |-> path])
  /\ saves' = saves + 1

\* chat.jsx lines 136-142, up to the suspension in mcpClient.callTool, for
\* the tool_use blocks handed to onToolUse in one synchronous run; `others`
\* are the handler invocations started in the same run.
OnToolUseBegins(blocks, awaited, others) ==
  /\ toolLog' = toolLog \o [i \in 1..Len(blocks) |->
                   [id |-> blocks[i].id, turn |-> Turn,
                    startedAfter |-> Len(callLog), completedAfter |-> 0 - 1,
                    outcome |-> "pending"]]
  /\ tasks' = tasks \cup others
               \cup {ToolTask(Turn, blocks[i].id, awaited, Len(toolLog) + i) :
                       i \in 1..Len(blocks)}

\* ------------------------------------------------- the turn loop
\* Line 124: while (finalMessage.stop_reason !== "end_turn")
LoopContinues(m) == m.stop_reason # "end_turn"

\* Lines 124-126 and the opening of the streaming request.
StartModelCall ==
  /\ pc = "loop"
  /\ LoopContinues(finalMessage)
  /\ callLog' = Append(callLog, [messages |-> conversationHistory, tools |-> tools])
  /\ attempts' = Append(attempts, [stream |-> 1, fallback |-> 0, fallbackFailed |-> FALSE])
  /\ \E m \in Responses(Len(callLog) + 1, MaxSize - SessionSize - 1) :
       /\ ValidResponse(m, tools)
       /\ sc' = [phase |-> "streaming", msg |-> m, pos |-> 1, waiting |-> FALSE]
  /\ pc' = "model"
  /\ UNCHANGED <<clock, resolved, gateway, body, response, conversationId, tools, db,
                 conversationHistory, productsToDisplay, finalMessage, tasks,
                 wire, late, toolLog, msgLog, discovery, saves, returned, faults>>

\* Lines 172-176.
Terminate ==
  /\ pc = "loop"
  /\ ~LoopContinues(finalMessage)
  /\ SendAll(<<Ev("end_turn", Turn, 0, <<>>)>>
             \o (IF Len(productsToDisplay) > 0
                   THEN <<Ev("product_results", Turn, 0, productsToDisplay)>>
                   ELSE <<>>))
  /\ pc' = "done"
  /\ UNCHANGED <<clock, resolved, gateway, body, response, conversationId, tools, db,
                 conversationHistory, productsToDisplay, finalMessage, sc, tasks,
                 callLog, toolLog, msgLog, attempts, discovery, saves, returned, faults>>

\* ------------------------------------------------- streamConversation
Streaming == pc = "model" /\ sc.phase = "streaming"

\* onText for every delta of a text block, in arrival order: through the
\* "text" listener (claude.server.js 43-45) or the "content_block_delta"
\* listener (part_000 123-128).  claude.server.js 63-69 also forwards each
\* complete text block from its "contentBlock" listener.
BlockEvents(block, turn) ==
  IF block.type = "text"
    THEN [i \in 1..Len(block.text) |-> Ev("chunk", turn, 0, <<block.text[i]>>)]
         \o (IF gateway = "emitter"
               THEN <<Ev("content_block_complete", turn, 0, block.text)>>
               ELSE <<>>)
    ELSE <<>>

\* The events sent while the first k blocks of a response stream in.
RECURSIVE StreamEvents(_, _, _)
StreamEvents(content, k, turn) ==
  IF k = 0 THEN <<>>
  ELSE StreamEvents(content, k - 1, turn) \o BlockEvents(content[k], turn)

\* The tool_use blocks among the first k blocks, in block order.
RECURSIVE ToolUseBlocks(_, _)
ToolUseBlocks(content, k) ==
  IF k = 0 THEN <<>>
  ELSE ToolUseBlocks(content, k - 1)
       \o (IF content[k].type = "tool_use" THEN <<content[k]>> ELSE <<>>)

\* claude.server.js 56-61: the "tool_use" listener starts onToolUse for each
\* tool_use block as it streams in; nobody awaits the promises.  part_000
\* has no such listener.
ListenerToolUses(content, k) ==
  IF gateway = "emitter" THEN ToolUseBlocks(content, k) ELSE <<>>

\* The response streams in, the message is complete and
\* stream.finalMessage() resolves.
\* claude.server.js 48-53: the "message" listener gets the message;
\* part_000 130-134: the "message_stop" listener passes on its event.  In
\* both the promise of onMessage is dropped.  claude.server.js 72-74 then
\* returns the final message; part_000 141-150 goes on to its tool-use loop.
StreamCompletes ==
  /\ Streaming
  /\ LET arg == IF gateway = "emitter" THEN AsMessage(sc.msg) ELSE MessageStopEvent
         n == Len(sc.msg.content)
     IN /\ SendAll(StreamEvents(sc.msg.content, n, Turn))
        /\ OnMessageBegins(arg, "stream")
        /\ OnToolUseBegins(ListenerToolUses(sc.msg.content, n), FALSE,
                           {MsgTask(Turn, arg.role, arg.content)})
  /\ IF gateway = "emitter"
       THEN /\ finalMessage' = sc.msg
            /\ returned' = Append(returned, sc.msg)
            /\ sc' = NoFrame
            /\ pc' = "loop"
       ELSE /\ sc' = [sc EXCEPT !.phase = "tools", !.pos = 1]
            /\ UNCHANGED <<finalMessage, pc, returned>>
  /\ UNCHANGED <<clock, resolved, gateway, body, response, conversationId, tools, db,
                 productsToDisplay, callLog, attempts, discovery, faults>>

\* The streaming transport fails after k blocks, before the message is
\* complete.  claude.server.js: finalMessage() rejects and the error leaves
\* streamConversation and handleChatSession (chat.jsx 177-180).
\* part_000 153-163: the catch issues the non-streaming request.
StreamError ==
  /\ Streaming
  /\ Settles(FALSE)
  /\ gateway = "fallback" => RoomForFallback
  /\ \E k \in 0..Len(sc.msg.content) :
       /\ SendAll(StreamEvents(sc.msg.content, k, Turn))
       /\ OnToolUseBegins(ListenerToolUses(sc.msg.content, k), FALSE, {})
  /\ IF gateway = "emitter"
       THEN /\ pc' = Propagates
            /\ sc' = NoFrame
            /\ UNCHANGED attempts
       ELSE /\ sc' = [sc EXCEPT !.phase = "fallback"]
            /\ attempts' = [attempts EXCEPT ![Turn].fallback = @ + 1]
            /\ UNCHANGED pc
  /\ UNCHANGED <<clock, resolved, gateway, body, response, conversationId, tools, db,
                 conversationHistory, productsToDisplay, finalMessage,
                 callLog, msgLog, discovery, saves, returned>>

\* part_000 167-174: onText once per text block, with the whole text.
RECURSIVE TextChunks(_, _)
TextChunks(content, turn) ==
  IF content = <<>> THEN <<>>
  ELSE (IF Head(content).type = "text"
          THEN <<Ev("chunk", turn, 0, Head(content).text)>>
          ELSE <<>>)
       \o TextChunks(Tail(content), turn)

\* part_000 157-179: the non-streaming request settles.  A rejection leaves
\* streamConversation; a response is replayed to onText and onMessage.
FallbackSettles ==
  /\ pc = "model"
  /\ sc.phase = "fallback"
  /\ \/ /\ Settles(FALSE)
        /\ pc' = Propagates
        /\ sc' = NoFrame
        /\ attempts' = [attempts EXCEPT ![Turn].fallbackFailed = TRUE]
        /\ UNCHANGED <<conversationHistory, tasks, wire, late, msgLog, saves>>
     \/ \E r \in Responses(Turn, MaxSize - SessionSize + Len(sc.msg.content)) :
          /\ ValidResponse(r, tools)
          /\ SendAll(TextChunks(r.content, Turn))
          /\ OnMessageBegins(AsMessage(r), "fallback")
          /\ tasks' = tasks \cup {MsgTask(Turn, r.role, Blocks(r.content))}
          /\ sc' = [sc EXCEPT !.phase = "tools", !.msg = r, !.pos = 1]
          /\ UNCHANGED <<pc, attempts, faults>>
  /\ UNCHANGED <<clock, resolved, gateway, body, response, conversationId, tools, db,
                 productsToDisplay, finalMessage,
                 callLog, toolLog, discovery, returned>>

\* Index of the first tool_use block at or after position p, 0 if none.
NextToolUse(content, p) ==
  IF \E i \in p..Len(content) : content[i].type = "tool_use"
    THEN CHOOSE i \in p..Len(content) :
           /\ content[i].type = "tool_use"
           /\ \A j \in p..(i - 1) : content[j].type # "tool_use"
    ELSE 0

\* part_000 143-150 and 182-188: await onToolUse(content), block by block.
DispatchToolUse ==
  /\ pc = "model"
  /\ sc.phase = "tools"
  /\ ~sc.waiting
  /\ NextToolUse(sc.msg.content, sc.pos) # 0
  /\ LET i == NextToolUse(sc.msg.content, sc.pos)
     IN /\ OnToolUseBegins(<<sc.msg.content[i]>>, TRUE, {})
        /\ sc' = [sc EXCEPT !.pos = i + 1, !.waiting = TRUE]
  /\ UNCHANGED <<clock, resolved, gateway, body, pc, response, conversationId, tools, db,
                 conversationHistory, productsToDisplay, finalMessage,
                 wire, late, callLog, msgLog, attempts, discovery, saves, returned, faults>>

\* part_000 152 and 190: return finalMessage.
ReturnFinalMessage ==
  /\ pc = "model"
  /\ sc.phase = "tools"
  /\ ~sc.waiting
  /\ NextToolUse(sc.msg.content, sc.pos) = 0
  /\ finalMessage' = sc.msg
  /\ returned' = Append(returned, sc.msg)
  /\ sc' = NoFrame
  /\ pc' = "loop"
  /\ UNCHANGED <<clock, resolved, gateway, body, response, conversationId, tools, db,
                 conversationHistory, productsToDisplay, tasks, wire, late,
                 callLog, toolLog, msgLog, attempts, discovery, saves, faults>>

\* ------------------------------------------------- handlers resuming
\* chat.jsx 133-134: saveMessage settles (a rejection goes to console.error)
\* and `message_complete` is sent.  The Message table has role and content
\* NOT NULL, so a row without a role is never written.
OnMessageResumes ==
  \E t \in tasks :
    /\ t.kind = "msg"
    /\ \E ok \in BOOLEAN :
         /\ Settles(ok)
         /\ db' = (IF ok /\ t.role # "undefined"
                     THEN saveMessage(db, t.role, JSONstringify(t.content))
                     ELSE db)
    /\ SendAll(<<Ev("message_complete", t.turn, 0, <<>>)>>)
    /\ tasks' = tasks \ {t}
    /\ UNCHANGED <<clock, resolved, gateway, body, pc, response, conversationId, tools,
                   conversationHistory, productsToDisplay, finalMessage, sc,
                   callLog, toolLog, msgLog, attempts, discovery, saves, returned>>

\* The frame of an awaiting caller once the awaited handler has settled.
Resume(t) == IF t.awaited THEN [sc EXCEPT !.waiting = FALSE] ELSE sc

\* The result reported under a type of its own when the tool failed.
ToolResultByOutcome(t, payload) ==
  Ev(IF payload = "error" THEN "tool_error" ELSE "tool_result", t.turn, t.id, <<payload>>)

ToolResult(t, payload) == Ev("tool_result", t.turn, t.id, <<payload>>)

\* toolService.handleToolSuccess: the tool result becomes a history entry
\* and an entry of the display list.
ToolResultEntry(id) ==
  [role |-> "user",
   content |-> Blocks(<<[type |-> "tool_result", text |-> <<>>, id |-> id]>>)]

handleToolSuccess(id) ==
  /\ conversationHistory' = Append(conversationHistory, ToolResultEntry(id))
  /\ productsToDisplay' = Append(productsToDisplay, "product")

\* chat.jsx 142-161: mcpClient.callTool settles with a result, with a
\* response that has an `error` field, or by throwing, and onToolUse runs
\* to its end.
OnToolUseResumes ==
  \E t \in tasks :
    /\ t.kind = "tool"
    /\ \E outcome \in {"result", "error", "throw"} :
         /\ Settles(outcome = "result")
         /\ toolLog' = [toolLog EXCEPT ![t.tix].completedAfter = Len(callLog),
                                       ![t.tix].outcome = outcome]
         /\ IF outcome = "result"
              THEN /\ SendAll(<<ToolResult(t, "result"), Ev("new_message", t.turn, 0, <<>>)>>)
                   /\ handleToolSuccess(t.id)
              ELSE /\ SendAll(IF outcome = "error"
                                THEN <<ToolResult(t, "error"), Ev("new_message", t.turn, 0, <<>>)>>
                                ELSE <<ToolResult(t, "error")>>)
                   /\ UNCHANGED <<conversationHistory, productsToDisplay>>
    /\ tasks' = tasks \ {t}
    /\ sc' = Resume(t)
    /\ UNCHANGED <<clock, resolved, gateway, body, pc, response, conversationId, tools, db,
                   finalMessage, callLog, msgLog, attempts, discovery, saves,
                   returned>>

\* An awaited onToolUse rejects: callTool throws, and the write of chat.jsx
\* 156, the one statement of the handler that no try encloses, throws too.
\* part_000 143-150 is inside the try of 112-152, so on the streaming path
\* the rejection lands in the catch of 153, which issues the non-streaming
\* request (157-163); in the loop of 182-188 it leaves streamConversation.
OnToolUseRejects ==
  \E t \in tasks :
    /\ t.kind = "tool"
    /\ t.awaited
    /\ Settles(FALSE)
    /\ attempts[Turn].fallback = 0 => RoomForFallback
    /\ toolLog' = [toolLog EXCEPT ![t.tix].completedAfter = Len(callLog),
                                  ![t.tix].outcome = "reject"]
    /\ tasks' = tasks \ {t}
    /\ IF attempts[Turn].fallback = 0
         THEN /\ sc' = [Resume(t) EXCEPT !.phase = "fallback"]
              /\ attempts' = [attempts EXCEPT ![Turn].fallback = @ + 1]
              /\ UNCHANGED pc
         ELSE /\ pc' = Propagates
              /\ sc' = NoFrame
              /\ UNCHANGED attempts
    /\ UNCHANGED <<clock, resolved, gateway, body, response, conversationId, tools, db,
                   conversationHistory, productsToDisplay, finalMessage, wire, late,
                   callLog, msgLog, discovery, saves, returned>>

Next ==
  \/ HandleChatRequest
  \/ SessionStart
  \/ ConnectStorefront
  \/ ConnectCustomer
  \/ SaveUserMessage
  \/ LoadHistory
  \/ StartModelCall
  \/ StreamCompletes
  \/ StreamError
  \/ FallbackSettles
  \/ DispatchToolUse
  \/ ReturnFinalMessage
  \/ OnMessageResumes
  \/ OnToolUseResumes
  \/ OnToolUseRejects
  \/ Terminate

Spec == Init /\ [][Next]_vars

\* ------------------------------------------------- requests side by side
\* The millisecond clock advances.
Tick ==
  /\ clock < MaxClock
  /\ clock' = clock + 1
  /\ UNCHANGED <<resolved, gateway, body, pc, response, conversationId, tools, db,
                 conversationHistory, productsToDisplay, finalMessage, sc, tasks,
                 wire, late, callLog, toolLog, msgLog, attempts, discovery, saves,
                 returned, faults>>

\* Lines 61-80 for one more request that has a message: its conversation
\* identifier is resolved at the current clock reading.
ConcurrentRequest ==
  /\ Len(resolved) < MaxRequests
  /\ \E b \in Bodies :
       /\ ~Missing(b.message)
       /\ resolved' = Append(resolved, [body |-> b, id |-> ResolveConversationId(b, Now)])
  /\ UNCHANGED <<clock, gateway, body, pc, response, conversationId, tools, db,
                 conversationHistory, productsToDisplay, finalMessage, sc, tasks,
                 wire, late, callLog, toolLog, msgLog, attempts, discovery, saves,
                 returned, faults>>

NextIds == Tick \/ ConcurrentRequest

SpecIds == Init /\ [][NextIds]_vars

\* ================================================================ claims
\* The session is over: the producer has returned and no handler is pending.
Settled == pc = "done" /\ tasks = {}

\* No collaborator has failed.
NoFailure == faults = 0

EventTypes(w) == [i \in 1..Len(w) |-> w[i].type]

\* Positions in the wire of the events of a type.
At(type) == {i \in 1..Len(wire) : wire[i].type = type}

NoToolUseSession ==
  /\ returned # <<>>
  /\ \A i \in 1..Len(returned) : ~HasToolUse(returned[i].content)

\* The wire restricted to the four event types C1 speaks of.
C1_Core == SelectSeq(wire, LAMBDA e : e.type \in {"id", "chunk", "message_complete", "end_turn"})

\* C1: in a session whose model responses contain no tool-use block there is
\* exactly one model call, and the events are one `id`, then zero or more
\* `chunk`, then one `message_complete`, then one `end_turn`; no
\* `message_complete` is emitted after `end_turn`.  Stated for sessions in
\* which no collaborator fails.
C1_ZeroToolUseOrder ==
  (Settled /\ NoFailure /\ NoToolUseSession) =>
    /\ Len(callLog) = 1
    /\ Len(C1_Core) >= 3
    /\ C1_Core[1].type = "id"
    /\ C1_Core[Len(C1_Core)].type = "end_turn"
    /\ C1_Core[Len(C1_Core) - 1].type = "message_complete"
    /\ \A i \in 2..(Len(C1_Core) - 2) : C1_Core[i].type = "chunk"
    /\ \A e \in late : e.type # "message_complete"

\* C2: when the first response has exactly one tool-use block and the second
\* has none, there are exactly two model calls and exactly one tool call; the
\* tool call starts after the first model call has started and completes
\* before the second starts, and `tool_result` is emitted before the second
\* `message_complete`.  Stated for sessions in which no collaborator fails.
C2_OneToolBetweenTwoCalls ==
  (/\ Settled
   /\ NoFailure
   /\ Len(returned) >= 2
   /\ ToolUseCount(returned[1].content) = 1
   /\ ~HasToolUse(returned[2].content)) =>
    /\ Len(callLog) = 2
    /\ Len(toolLog) = 1
    /\ toolLog[1].startedAfter = 1
    /\ toolLog[1].completedAfter = 1
    /\ \E i \in At("tool_result") :
         \A j \in At("message_complete") : wire[j].turn = 2 => i < j

\* The failure of tool call k is visible in a message history.
FailureVisible(messages, id) ==
  \E i \in 1..Len(messages) :
    /\ messages[i].content.kind = "blocks"
    /\ \E b \in 1..Len(messages[i].content.blocks) :
         /\ messages[i].content.blocks[b].type = "tool_result"
         /\ messages[i].content.blocks[b].id = id

ToolFailed(k) == toolLog[k].outcome \in {"error", "throw"}

\* The failures of the session are failures of tool calls.
OnlyToolsFailed == faults = Cardinality({k \in 1..Len(toolLog) : ToolFailed(k)})

\* C3: a failed tool call does not abort the session; a `tool_result` event
\* with the tool_use id and an error payload is emitted, and a later model
\* call is made whose message history shows the failure.  Stated for
\* sessions in which nothing but tool calls fails.
C3_ToolFailureVisible ==
  \A k \in 1..Len(toolLog) :
    (ToolFailed(k) /\ OnlyToolsFailed) =>
      /\ pc # "failed"
      /\ \E e \in {wire[i] : i \in 1..Len(wire)} \cup late :
           e.type = "tool_result" /\ e.id = toolLog[k].id /\ e.payload = <<"error">>
      /\ \A c \in 1..Len(callLog) :
           c > toolLog[k].completedAfter => FailureVisible(callLog[c].messages, toolLog[k].id)
      /\ Settled => Len(callLog) > toolLog[k].completedAfter

\* C4: when tool discovery fails the session goes on, and every model call
\* of the session is made with an empty tool catalog.
C4_DiscoveryFailureEmptyCatalog ==
  discovery.failed =>
    \A c \in 1..Len(callLog) : callLog[c].tools = {}

\* C5: on the streaming path and on the fallback path alike, onMessage is
\* invoked once per turn with the role and the content of the turn's final
\* message M, so the entry appended to history is that of M.
C5_SameMessageOnBothPaths ==
  \A t \in 1..Len(returned) :
    /\ Cardinality({i \in 1..Len(msgLog) : msgLog[i].turn = t}) = 1
    /\ \A i \in 1..Len(msgLog) :
         msgLog[i].turn = t =>
           /\ msgLog[i].role = returned[t].role
           /\ msgLog[i].content = Blocks(returned[t].content)

\* C6: when the streaming request and the fallback request of a turn both
\* fail, the turn fails, the error leaves handleChatSession, and no further
\* model call is made; a turn makes at most one streaming request and at
\* most one fallback request.
C6_BothFailTerminates ==
  \A t \in 1..Len(attempts) :
    /\ attempts[t].stream <= 1
    /\ attempts[t].fallback <= 1
    /\ attempts[t].fallbackFailed =>
         /\ pc = "failed"
         /\ sc.phase = "none"
         /\ t = Len(callLog)

C6_Witness ==
  \E t \in 1..Len(attempts) :
    attempts[t].stream = 1 /\ attempts[t].fallback = 1 /\ attempts[t].fallbackFailed

\* C7: a request without `message` gets a 400 response with a JSON error
\* body and no session: no stream, no event, no row written, no tool
\* discovery, no model call.
C7_MissingMessageRejected ==
  body.message = NoMessage =>
    /\ pc \in {"request", "rejected"}
    /\ pc = "rejected" => response = [status |-> 400, kind |-> "json-error"]
    /\ response.kind # "event-stream"
    /\ wire = <<>> /\ late = {}
    /\ saves = 0 /\ db = InitialRows(body)
    /\ discovery.storefront = 0 /\ discovery.customer = 0
    /\ callLog = <<>>

C7_Witness == body.message = NoMessage /\ pc = "rejected" /\ response.status = 400

\* C8: no event is passed to sendMessage after the output channel has
\* closed, that is after handleChatSession has returned or thrown.  Stated
\* for sessions in which no collaborator fails.
C8_NoSendAfterClose == NoFailure => late = {}

\* C9: the user message has been written before the first model call, the
\* history given to that call is the history loaded after the write, and it
\* ends with the user's message.
C9_UserMessageFirst ==
  callLog # <<>> =>
    LET h == callLog[1].messages
        rows == saveMessage(InitialRows(body), "user", RawText(body.message))
    IN /\ Len(db) >= Len(rows)
       /\ SubSeq(db, 1, Len(rows)) = rows
       /\ Len(h) = Len(rows)
       /\ \A i \in 1..Len(h) : h[i].role = rows[i].role
       /\ h[Len(h)] = [role |-> "user", content |-> Str(body.message)]

\* C10: after a turn the loop goes on with another model call exactly when
\* the turn's final message requests tool use; a final message that
\* requests none ends the loop.  Stated for sessions in which no
\* collaborator fails.
C10_ContinuesIffToolUse ==
  (pc = "loop" /\ NoFailure /\ returned # <<>>) =>
    (LoopContinues(finalMessage) <=> HasToolUse(finalMessage.content))

\* The result of tool call `id` is an entry of a message history.
ToolResultIn(messages, id) == FailureVisible(messages, id)

\* C11: a turn whose final message has tool-use blocks does not end the
\* session, and a later model call starts only after every tool call of the
\* turn has completed, with the tool results in the history it is given.
\* Stated for sessions in which no collaborator fails.
C11_NextCallAfterTools ==
  NoFailure =>
    /\ (pc = "done" => ~HasToolUse(finalMessage.content))
    /\ \A k \in 1..Len(toolLog) :
         \A c \in 1..Len(callLog) :
           c > toolLog[k].turn =>
             /\ toolLog[k].completedAfter = toolLog[k].turn
             /\ ToolResultIn(callLog[c].messages, toolLog[k].id)

\* Every event handed to stream.sendMessage, before or after the close.
Sent == {wire[i] : i \in 1..Len(wire)} \cup late

WireTypes == {"id", "chunk", "message_complete", "tool_result",
              "content_block_complete", "end_turn", "new_message", "error"}

\* C12 as stated: every wire message has one of the eight listed types.
\* Stated for sessions in which no collaborator fails.
C12_ListedTypesOnly == NoFailure => \A e \in Sent : e.type \in WireTypes

\* C12, amended: every wire message has one of the eight listed types or is
\* the `product_results` event that carries the display list.
C12_ListedTypesOrProducts ==
  \A e \in Sent : e.type \in WireTypes \cup {"product_results"}

C12_Witness ==
  /\ pc = "done"
  /\ \E e \in Sent : e.type = "product_results"
  /\ \E e \in Sent : e.type = "tool_result"

\* C13: a session that terminates normally has exactly one `end_turn` on
\* the wire; it is followed by one event carrying the display list when
\* tool dispatch has put an entry on that list, and by nothing otherwise.
\* Stated for sessions in which no collaborator fails.
C13_EndTurnThenProducts ==
  (Settled /\ NoFailure) =>
    /\ Cardinality(At("end_turn")) = 1
    /\ \A i \in At("end_turn") :
         IF productsToDisplay # <<>>
           THEN /\ Len(wire) = i + 1
                /\ wire[i + 1].type = "product_results"
                /\ wire[i + 1].payload = productsToDisplay
           ELSE Len(wire) = i

\* A fatal error has happened: the producer has thrown, or the streaming and
\* the fallback request of a turn have both failed.
FatalSeen ==
  \/ pc = "failed"
  \/ \E t \in 1..Len(attempts) : attempts[t].fallbackFailed

IsPrefix(u, w) == Len(u) <= Len(w) /\ SubSeq(w, 1, Len(u)) = u

\* C14: once a session has failed with a fatal error, no `end_turn` is ever
\* emitted, the producer has settled so that the channel is closed, and the
\* wire stays as it was; no step of a session retracts an event already sent.
C14_FatalErrorNoEndTurn ==
  [][/\ IsPrefix(wire, wire')
     /\ FatalSeen' =>
          /\ ~ChannelOpen'
          /\ \A e \in Sent' : e.type # "end_turn"
     /\ FatalSeen => (FatalSeen' /\ wire' = wire)]_vars

C14_Witness ==
  /\ pc = "failed"
  /\ \E i \in 1..Len(wire) : wire[i].type = "chunk"
  /\ late # {}

\* C15: a failed saveMessage never ends the session, for the write of the
\* user message as for the writes of assistant messages: the steps that
\* take a session to its failed state are the history load and the model
\* call, never a write.  Stated for the first failure of a session.
C15_OnlyLoadIsFatal ==
  [][(NoFailure /\ pc # "failed" /\ pc' = "failed")
       => pc \in {"loadHistory", "model"}]_vars

\* Tool calls in flight.
ToolCallsInFlight == {t \in tasks : t.kind = "tool"}

\* The ids of the tool calls made for a turn, in the order they were made.
ToolCallIds(turn) ==
  LET calls == SelectSeq(toolLog, LAMBDA c : c.turn = turn)
  IN [i \in 1..Len(calls) |-> calls[i].id]

BlockIds(blocks) == [i \in 1..Len(blocks) |-> blocks[i].id]

ToolResultsOnWire == SelectSeq(wire, LAMBDA e : e.type = "tool_result")

\* C16: onToolUse is invoked once per tool-use block of a turn's final
\* message, in block order; no two tool calls are in flight at once, and
\* the `tool_result` events appear in request order.  Stated for sessions in
\* which no collaborator fails.
C16_OneToolAtATime ==
  NoFailure =>
    /\ Cardinality(ToolCallsInFlight) <= 1
    /\ \A t \in 1..Len(returned) :
         ToolCallIds(t) = BlockIds(ToolUseBlocks(returned[t].content, Len(returned[t].content)))
    /\ \A i, j \in 1..Len(ToolResultsOnWire) :
         i < j => ToolResultsOnWire[i].id < ToolResultsOnWire[j].id

\* Positions in the wire of the events of a type that belong to a turn.
AtTurn(type, turn) == {i \in At(type) : wire[i].turn = turn}

\* C17: in every turn that completes, onMessage is invoked exactly once and
\* exactly one `message_complete` is emitted; the `chunk` events of the turn
\* precede it and the `tool_result` events of the turn follow it.  Stated
\* for sessions in which no collaborator fails.
C17_OneMessageCompletePerTurn ==
  NoFailure =>
    \A t \in 1..Len(returned) :
      /\ Cardinality({i \in 1..Len(msgLog) : msgLog[i].turn = t}) = 1
      /\ Cardinality(AtTurn("message_complete", t)) <= 1
      /\ Settled => Cardinality(AtTurn("message_complete", t)) = 1
      /\ \A m \in AtTurn("message_complete", t) :
           /\ \A c \in AtTurn("chunk", t) : c < m
           /\ \A r \in AtTurn("tool_result", t) : m < r
      /\ \A r \in AtTurn("tool_result", t) : AtTurn("message_complete", t) # {}

\* Writes of assistant messages in flight.
WritesInFlight == {t \in tasks : t.kind = "msg"}

\* A request to the model provider is in flight.
ModelCallInFlight == pc = "model" /\ sc.phase \in {"streaming", "fallback"}

\* C18: at any instant at most one of model call, tool call and persistence
\* write is in flight, and the write of an assistant message has finished
\* before `end_turn` is emitted.  Stated for sessions in which no
\* collaborator fails.
C18_NoOverlap ==
  NoFailure =>
    /\ (IF ModelCallInFlight THEN 1 ELSE 0)
         + Cardinality(ToolCallsInFlight) + Cardinality(WritesInFlight) <= 1
    /\ At("end_turn") # {} => WritesInFlight = {}

\* C19: each of connectToStorefrontServer and connectToCustomerServer is
\* called at most once, neither is called once the turn loop has made a
\* model call, and every model call of the session is given the same tool
\* catalog.
C19_DiscoveryOnce ==
  [][/\ discovery'.storefront <= 1
     /\ discovery'.customer <= 1
     /\ callLog # <<>> => (discovery' = discovery /\ tools' = tools)
     /\ \A c \in 1..Len(callLog') : callLog'[c].tools = callLog'[1].tools]_vars

C19_Witness ==
  /\ discovery.failed
  /\ Len(callLog) >= 2
  /\ callLog[2].tools # {}

\* C20: a request that names a conversation gets that identifier, and two
\* requests that name none never get the same identifier.
C20_FreshIdsUnique ==
  \A i, j \in 1..Len(resolved) :
    /\ resolved[i].body.conversation_id # NoId
         => resolved[i].id = resolved[i].body.conversation_id
    /\ (/\ i # j
        /\ resolved[i].body.conversation_id = NoId
        /\ resolved[j].body.conversation_id = NoId)
         => resolved[i].id # resolved[j].id

\* The texts carried by the `chunk` events of a turn, one after the other.
RECURSIVE ChunkText(_, _)
ChunkText(w, turn) ==
  IF w = <<>> THEN <<>>
  ELSE (IF Head(w).type = "chunk" /\ Head(w).turn = turn THEN Head(w).payload ELSE <<>>)
       \o ChunkText(Tail(w), turn)

\* The texts of the text blocks of a message, one after the other.
RECURSIVE MessageText(_)
MessageText(content) ==
  IF content = <<>> THEN <<>>
  ELSE (IF Head(content).type = "text" THEN Head(content).text ELSE <<>>)
       \o MessageText(Tail(content))

\* C21: for every turn the `chunk` events of the turn, concatenated, are the
\* text of the turn's final message, with nothing delivered twice; also when
\* the turn was completed by the fallback after a failed streaming request.
\* Stated for sessions in which at most one collaborator call fails and for
\* the turns whose final message has text.
C21_ChunksAreTheText ==
  faults <= 1 =>
    \A t \in 1..Len(returned) :
      MessageText(returned[t].content) # <<>> =>
        ChunkText(wire, t) = MessageText(returned[t].content)

\* The stream of turn t delivered its final message: its message_stop
\* listener ran.
StreamDelivered(t) ==
  \E i \in 1..Len(msgLog) : msgLog[i].turn = t /\ msgLog[i].path = "stream"

\* The invocations of onMessage in turn t.
MessagesOfTurn(t) == {i \in 1..Len(msgLog) : msgLog[i].turn = t}

\* C22: the non-streaming request of a turn is issued only when the turn's
\* streaming request failed: a turn whose stream has delivered its final
\* message makes no second model request, whatever its handlers do
\* afterwards, and no turn has two messages appended to the history by
\* onMessage.  Stated for sessions in which at most one call fails.
C22_FallbackOnlyOnTransportFailure ==
  faults <= 1 =>
    \A t \in 1..Len(attempts) :
      /\ StreamDelivered(t) => attempts[t].fallback = 0
      /\ Cardinality(MessagesOfTurn(t)) <= 1

====
